---- MODULE Spec2Model ----
(***************************************************************************)
(* cargo-light (src/main.rs): the shadow counter and its batch driver.     *)
(*                                                                         *)
(* The driver (main) walks a batch of entries, either the explicit --files *)
(* list or a directory walk.  For every entry it reads and parses the file *)
(* and runs a ShadowCounter over the syntax tree with syn's Visit trait.   *)
(* The traversal is modelled one visited node at a time: the visitor only  *)
(* overrides visit_item_fn, visit_impl_item_method and visit_local, every  *)
(* other node is walked by syn's default methods without touching the      *)
(* counter.  `stack` is the chain of overridden visit_* calls that have    *)
(* not returned yet.  The outcome of a read, of a parse, of a directory    *)
(* step and the next node of the tree are inputs, drawn when the code asks *)
(* for them.  A panic! / unwrap / expect failure unwinds main: pc becomes  *)
(* "panic" and nothing runs afterwards.  `tree` keeps the nodes of the     *)
(* current file in visiting order; the line of a node is its position.     *)
(***************************************************************************)
EXTENDS Naturals, Sequences, FiniteSets, TLC

\* Bounds of the exploration.
MaxNodes == 4      \* size of a batch: nodes (fn, method, let) visited, entries after the first
MaxEntries == 2    \* entries of one batch

\* "{:<15.15}" in Display for Function: the identifier column is cut to 15 chars.
KeyWidth == 15

VARIABLES
    mode,        \* "files" (--files given) or "dir" (directory walk)
    total,       \* number of entries the batch iterator will yield
    idx,         \* entries consumed so far
    spent,       \* nodes visited in the earlier trees of the batch
    pc,          \* "loop", "visit", "exit", "panic"
    filename,    \* ShadowCounter.filename (the entry number)
    funcs,       \* ShadowCounter.funcs
    has_shadow,  \* ShadowCounter.has_shadow
    stack,       \* pending visit_item_fn / visit_impl_item_method / visit_local calls
    nodes,       \* overridden nodes visited in the current tree (= source line)
    tree,        \* the fn, method and let nodes of the current tree visited so far
    analysed,    \* per finished traversal: [file, has_shadow]
    stdout,      \* file names whose report header was printed, in order
    report,      \* what print_visitor printed for the current ShadowCounter
    stderr       \* diagnostics and panic messages, in order

vars == <<mode, total, idx, spent, pc, filename, funcs, has_shadow, stack, nodes, tree,
          analysed, stdout, report, stderr>>

\* The size of the input consumed so far: the nodes visited in the batch, and
\* one for each entry after the first.
Size == spent + nodes + (IF idx > 1 THEN idx - 1 ELSE 0)

visitor == <<filename, funcs, has_shadow, stack, nodes, tree>>
output == <<analysed, stdout, report, stderr>>

----------------------------------------------------------------------------
\* Inputs

\* Identifiers are character sequences.
IdentX == <<"x">>
IdentY == <<"y">>
Idents == {IdentX, IdentY}

FnNames == {"f"}
MethodNames == {"m"}

\* syn::Pat: an identifier pattern (possibly `ref`), or a compound pattern.
PatIdent(id, by_ref) == [kind |-> "Ident", ident |-> id, by_ref |-> by_ref]
PatTuple == [kind |-> "Tuple", ident |-> <<>>, by_ref |-> FALSE]

\* Local.pats (Punctuated<Pat, Or>) of the let statements explored.
LocalPats ==
    { <<PatIdent(IdentX, FALSE)>>,
      <<PatIdent(IdentY, FALSE)>>,
      <<PatIdent(IdentX, TRUE)>>,
      <<PatTuple>>,
      <<PatIdent(IdentX, FALSE), PatTuple, PatIdent(IdentX, FALSE)>> }

----------------------------------------------------------------------------
\* Data structures

CaseNew(loc, is_original) == [loc |-> loc, is_original |-> is_original]

CountNew == [locs |-> <<>>]

EmptyVars == [k \in {} |-> CountNew]

FunctionNew(name, loc) ==
    [name |-> name, loc |-> loc, vars |-> EmptyVars, has_shadow |-> FALSE]

\* Variant: the counter of the previous file is used again.
ShadowCounterNew_Reuse(file) ==
    [filename |-> file, funcs |-> funcs, has_shadow |-> has_shadow]

\* ShadowCounter::new: no scopes, no shadow.
ShadowCounterNew(file) ==
    [filename |-> file, funcs |-> <<>>, has_shadow |-> FALSE]

\* Variant: only the first identifier is kept.
get_idents_First(pattern) ==
    LET sel == SelectSeq(pattern, LAMBDA p : p.kind = "Ident")
    IN  [k \in 1..(IF sel = <<>> THEN 0 ELSE 1) |-> sel[k].ident]

\* Variant: `if i.by_ref.is_none()` is in force, `ref` bindings are left out.
get_idents_SkipRef(pattern) ==
    LET sel == SelectSeq(pattern, LAMBDA p : p.kind = "Ident" /\ ~p.by_ref)
    IN  [k \in 1..Len(sel) |-> sel[k].ident]

\* get_idents: the identifiers of the top-level Pat::Ident patterns, in order.
get_idents(pattern) ==
    LET sel == SelectSeq(pattern, LAMBDA p : p.kind = "Ident")
    IN  [k \in 1..Len(sel) |-> sel[k].ident]

\* Variant: vars.insert(i, Count::new()), an earlier history is replaced.
OrInsert_Replace(fvars, id) ==
    [k \in (DOMAIN fvars) \cup {id} |-> IF k = id THEN CountNew ELSE fvars[k]]

\* vars.entry(i).or_insert(Count::new())
OrInsert(fvars, id) ==
    IF id \in DOMAIN fvars
    THEN fvars
    ELSE [k \in (DOMAIN fvars) \cup {id} |->
             IF k = id THEN CountNew ELSE fvars[k]]

\* Variant: every occurrence is taken for the first one.
IsOriginal_Always(count) == TRUE

\* let is_original = count.locs.len() == 0;
IsOriginal(count) == Len(count.locs) = 0

\* Variant: the flag of the scope is never raised.
SetFuncShadow_Never(func, is_original) == func

\* if !is_original { func_counter.has_shadow = true; ... }
SetFuncShadow(func, is_original) ==
    IF ~is_original THEN [func EXCEPT !.has_shadow = TRUE] ELSE func

\* Variant: the flag of the file is never raised.
SetFileShadow_Never(flag, is_original) == flag

\* if !is_original { ...; self.has_shadow = true; }
SetFileShadow(flag, is_original) ==
    IF ~is_original THEN TRUE ELSE flag

\* Variant: the scope of the innermost function whose visit is pending.
LastMut_Lexical(fs) ==
    LET fi == { k \in 1..Len(stack) : stack[k].scope # 0 }
    IN  IF fi = {} THEN Len(fs)
        ELSE stack[CHOOSE k \in fi : \A j \in fi : j <= k].scope

\* Variant: first_mut() in place of last_mut().
LastMut_First(fs) == 1

\* self.funcs.last_mut(): the position of the scope that receives the bindings.
LastMut(fs) == Len(fs)

\* One iteration of the loop of visit_local over ids.
\* st = [funcs, has_shadow]; the scope is self.funcs.last_mut().
RecordIdent(st, id, line) ==
    LET at == LastMut(st.funcs)
        func == st.funcs[at]
        vars1 == OrInsert(func.vars, id)
        count == vars1[id]
        is_original == IsOriginal(count)
        count2 == [locs |-> Append(count.locs, CaseNew(line, is_original))]
        func2 == [func EXCEPT !.vars = [vars1 EXCEPT ![id] = count2]]
    IN  [funcs |-> [st.funcs EXCEPT ![at] = SetFuncShadow(func2, is_original)],
         has_shadow |-> SetFileShadow(st.has_shadow, is_original)]

\* for i in ids { ... }
RECURSIVE RecordAll(_, _, _)
RecordAll(st, ids, line) ==
    IF ids = <<>>
    THEN st
    ELSE RecordAll(RecordIdent(st, Head(ids), line), Tail(ids), line)

----------------------------------------------------------------------------
\* Rendering

Min(a, b) == IF a < b THEN a ELSE b

\* "{:<15.15}": at most KeyWidth characters of the identifier.
FmtKey(id) == SubSeq(id, 1, Min(Len(id), KeyWidth))

\* Debug for Case: the line number, cyan for the original, yellow otherwise.
FmtCase(c) ==
    [text |-> c.loc, color |-> IF c.is_original THEN "cyan" ELSE "yellow"]

\* The orders in which a HashMap with these keys may be iterated.
KeyOrders(keys) ==
    { o \in [1..Cardinality(keys) -> keys] :
        \A a, b \in 1..Cardinality(keys) : a # b => o[a] # o[b] }

\* The row of one identifier in Display for Function.
FmtRow(key, val) ==
    [key |-> FmtKey(key),
     count |-> Len(val.locs),
     locs |-> [k \in 1..Len(val.locs) |-> FmtCase(val.locs[k])]]

\* Variant: every identifier of the map gets a row.
RowShown_NonEmpty(val) == Len(val.locs) # 0

\* if val.locs.len() != 1 { functions += ... }
RowShown(val) == Len(val.locs) # 1

\* Display for Function, the map being iterated in the order `order`.
FmtFunction(f, order) ==
    LET shown == SelectSeq(order, LAMBDA k : RowShown(f.vars[k]))
    IN  [loc |-> f.loc,
         name |-> f.name,
         rows |-> [k \in 1..Len(shown) |-> FmtRow(shown[k], f.vars[shown[k]])]]

\* if f.has_shadow { println!("{}", f); }
FuncShown(f) == f.has_shadow

\* print_visitor: the header and the shown functions, each under one of the
\* iteration orders of its map.
print_visitor(counter) ==
    LET fs == SelectSeq(counter.funcs, FuncShown)
        all == UNION { { FmtFunction(fs[k], o) : o \in KeyOrders(DOMAIN fs[k].vars) }
                       : k \in 1..Len(fs) }
    IN  { [header |-> counter.filename, body |-> b] :
            b \in { c \in [1..Len(fs) -> all] :
                      \A k \in 1..Len(fs) :
                         \E o \in KeyOrders(DOMAIN fs[k].vars) :
                            c[k] = FmtFunction(fs[k], o) } }

NoReport == [header |-> 0, body |-> <<>>]

----------------------------------------------------------------------------
\* Initial state: main after argument parsing.

Init ==
    /\ mode \in {"files", "dir"}
    /\ total \in 1..MaxEntries
    /\ idx = 0
    /\ spent = 0
    /\ pc = "loop"
    /\ filename = 0
    /\ funcs = <<>>
    /\ has_shadow = FALSE
    /\ stack = <<>>
    /\ nodes = 0
    /\ tree = <<>>
    /\ analysed = <<>>
    /\ stdout = <<>>
    /\ report = NoReport
    /\ stderr = <<>>

----------------------------------------------------------------------------
\* The visitor

\* A pending visit_* call: the kind of its node, the scope it opened (0 for a
\* let) and the line of the node.
Frame(kind, scope, line) == [kind |-> kind, scope |-> scope, line |-> line]

\* The nodes the visitor overrides: an ItemFn or ImplItemMethod with its name,
\* a Local with its patterns.
ItemNode(kind, name) == [kind |-> kind, name |-> name, pats |-> <<>>]
LocalNode(pats) == [kind |-> "local", name |-> "", pats |-> pats]

\* visit_item_fn: push a scope, then descend (visit::visit_item_fn).
VisitItemFn ==
    /\ pc = "visit"
    /\ Size < MaxNodes
    /\ \E name \in FnNames :
          /\ funcs' = Append(funcs, FunctionNew(name, nodes + 1))
          /\ tree' = Append(tree, ItemNode("fn", name))
    /\ nodes' = nodes + 1
    /\ stack' = Append(stack, Frame("fn", Len(funcs) + 1, nodes + 1))
    /\ UNCHANGED <<mode, total, spent, idx, pc, filename, has_shadow, output>>

\* visit_impl_item_method: as visit_item_fn.
VisitImplItemMethod ==
    /\ pc = "visit"
    /\ Size < MaxNodes
    /\ \E name \in MethodNames :
          /\ funcs' = Append(funcs, FunctionNew(name, nodes + 1))
          /\ tree' = Append(tree, ItemNode("method", name))
    /\ nodes' = nodes + 1
    /\ stack' = Append(stack, Frame("method", Len(funcs) + 1, nodes + 1))
    /\ UNCHANGED <<mode, total, spent, idx, pc, filename, has_shadow, output>>

\* Variant: visit::visit_local is called first, nothing is recorded before the
\* descent.
VisitLocal_DescendFirst ==
    /\ pc = "visit"
    /\ Size < MaxNodes
    /\ funcs # <<>>
    /\ \E pats \in LocalPats : tree' = Append(tree, LocalNode(pats))
    /\ nodes' = nodes + 1
    /\ stack' = Append(stack, Frame("local", 0, nodes + 1))
    /\ UNCHANGED <<mode, total, spent, idx, pc, filename, funcs, has_shadow, output>>

\* visit_local with at least one scope: record the identifiers in the last
\* scope, then descend into the statement (visit::visit_local).
VisitLocal ==
    /\ pc = "visit"
    /\ Size < MaxNodes
    /\ funcs # <<>>
    /\ \E pats \in LocalPats :
          LET st == RecordAll([funcs |-> funcs, has_shadow |-> has_shadow],
                              get_idents(pats), nodes + 1)
          IN  /\ funcs' = st.funcs
              /\ has_shadow' = st.has_shadow
              /\ tree' = Append(tree, LocalNode(pats))
    /\ nodes' = nodes + 1
    /\ stack' = Append(stack, Frame("local", 0, nodes + 1))
    /\ UNCHANGED <<mode, total, spent, idx, pc, filename, output>>

\* visit_local with no scope: panic!("Local without a function? ...").
VisitLocalPanic ==
    /\ pc = "visit"
    /\ Size < MaxNodes
    /\ funcs = <<>>
    /\ \E pats \in LocalPats : TRUE
    /\ pc' = "panic"
    /\ stderr' = Append(stderr, [msg |-> "Local without a function?", file |-> filename])
    /\ UNCHANGED <<mode, total, spent, idx, visitor, analysed, stdout, report>>

\* The innermost pending visit_* call returns.
VisitReturn ==
    /\ pc = "visit"
    /\ stack # <<>>
    /\ stack' = SubSeq(stack, 1, Len(stack) - 1)
    /\ UNCHANGED <<mode, total, spent, idx, pc, filename, funcs, has_shadow, nodes, tree, output>>

----------------------------------------------------------------------------
\* The driver

AtEntry(m) == pc = "loop" /\ mode = m /\ idx < total

Panic(msg) ==
    /\ pc' = "panic"
    /\ idx' = idx + 1
    /\ stderr' = Append(stderr, [msg |-> msg, file |-> idx + 1])
    /\ UNCHANGED <<mode, total, spent, visitor, analysed, stdout, report>>

Skip ==
    /\ idx' = idx + 1
    /\ UNCHANGED <<mode, total, spent, pc, visitor, output>>

Warn(msg) ==
    /\ idx' = idx + 1
    /\ stderr' = Append(stderr, [msg |-> msg, file |-> idx + 1])
    /\ UNCHANGED <<mode, total, spent, pc, visitor, analysed, stdout, report>>

\* Variant: one ShadowCounter, built before the loop, serves every file.
Begin_SharedVisitor ==
    /\ filename' = idx + 1
    /\ stack' = <<>>
    /\ nodes' = 0
    /\ tree' = <<>>
    /\ pc' = "visit"
    /\ idx' = idx + 1
    /\ report' = NoReport
    /\ spent' = spent + nodes
    /\ UNCHANGED <<mode, total, funcs, has_shadow, analysed, stdout, stderr>>

\* ShadowCounter::new(file); visit::visit_file(&mut visitor, &syntax) begins.
Begin ==
    LET c == ShadowCounterNew(idx + 1)
    IN  /\ filename' = c.filename
        /\ funcs' = c.funcs
        /\ has_shadow' = c.has_shadow
        /\ stack' = <<>>
        /\ nodes' = 0
        /\ tree' = <<>>
        /\ pc' = "visit"
        /\ idx' = idx + 1
        /\ report' = NoReport
        /\ spent' = spent + nodes
        /\ UNCHANGED <<mode, total, analysed, stdout, stderr>>

\* --files: fs::read_to_string(file).unwrap() fails.
FilesReadError == AtEntry("files") /\ Panic("read_to_string: unwrap on Err")

\* --files: syn::parse_file(&source).expect("Unable to parse file") fails.
FilesParseError == AtEntry("files") /\ Panic("Unable to parse file")

\* --files: the file is read and parsed, the traversal starts.
FilesBegin == AtEntry("files") /\ Begin

EmitReport ==
    /\ report' \in print_visitor([filename |-> filename, funcs |-> funcs,
                                  has_shadow |-> has_shadow])
    /\ stdout' = Append(stdout, filename)

\* --files: visit_file returned; print_visitor(visitor).
FilesFinish ==
    /\ pc = "visit" /\ mode = "files" /\ stack = <<>>
    /\ analysed' = Append(analysed, [file |-> filename, has_shadow |-> has_shadow])
    /\ EmitReport
    /\ pc' = "loop"
    /\ UNCHANGED <<mode, total, spent, idx, visitor, stderr>>

\* directory: file.expect("Unable to parse file name.") on a walk error.
DirWalkError == AtEntry("dir") /\ Panic("Unable to parse file name.")

\* directory: !is_file_with_ext(&file, "rs") => continue.
DirNotRs == AtEntry("dir") /\ Skip

\* directory: file.path().to_str() is None => eprintln, continue.
DirBadPath == AtEntry("dir") /\ Warn("Unable to parse a file.")

\* directory: fs::read_to_string(file).unwrap() fails.
DirReadError == AtEntry("dir") /\ Panic("read_to_string: unwrap on Err")

\* directory: syntax.is_err() => eprintln, continue.
DirParseError == AtEntry("dir") /\ Warn("Unable to parse")

\* directory: the file is read and parsed, the traversal starts.
DirBegin == AtEntry("dir") /\ Begin

\* Variant: the directory walk prints every analysed file.
DirFinish_AlwaysPrint ==
    /\ pc = "visit" /\ mode = "dir" /\ stack = <<>>
    /\ analysed' = Append(analysed, [file |-> filename, has_shadow |-> has_shadow])
    /\ EmitReport
    /\ pc' = "loop"
    /\ UNCHANGED <<mode, total, spent, idx, visitor, stderr>>

\* directory: visit_file returned; if visitor.has_shadow { print_visitor(visitor) }.
DirFinish ==
    /\ pc = "visit" /\ mode = "dir" /\ stack = <<>>
    /\ analysed' = Append(analysed, [file |-> filename, has_shadow |-> has_shadow])
    /\ IF has_shadow THEN EmitReport ELSE UNCHANGED <<stdout, report>>
    /\ pc' = "loop"
    /\ UNCHANGED <<mode, total, spent, idx, visitor, stderr>>

\* The iterator is exhausted: main returns.
Exit ==
    /\ pc = "loop"
    /\ idx = total
    /\ pc' = "exit"
    /\ UNCHANGED <<mode, total, spent, idx, visitor, output>>

Next ==
    \/ VisitItemFn
    \/ VisitImplItemMethod
    \/ VisitLocal
    \/ VisitLocalPanic
    \/ VisitReturn
    \/ FilesReadError
    \/ FilesParseError
    \/ FilesBegin
    \/ FilesFinish
    \/ DirWalkError
    \/ DirNotRs
    \/ DirBadPath
    \/ DirReadError
    \/ DirParseError
    \/ DirBegin
    \/ DirFinish
    \/ Exit

Spec == Init /\ [][Next]_vars

----------------------------------------------------------------------------
\* Properties

Locs(i, id) == funcs[i].vars[id].locs

InSeq(x, sq) == \E k \in 1..Len(sq) : sq[k] = x

\* C1: every binding history stored in a scope is non-empty, its first
\* occurrence is the original and no later occurrence is.
C1_OneOriginalFirst ==
    \A i \in 1..Len(funcs) : \A id \in DOMAIN funcs[i].vars :
        /\ Len(Locs(i, id)) >= 1
        /\ Locs(i, id)[1].is_original
        /\ \A k \in 2..Len(Locs(i, id)) : ~Locs(i, id)[k].is_original

\* An identifier bound three times in one scope.
C1_Witness ==
    \E i \in 1..Len(funcs) : \E id \in DOMAIN funcs[i].vars : Len(Locs(i, id)) >= 3

\* C2: a scope's has_shadow is true exactly when one of its identifiers has
\* more than one recorded occurrence.
C2_FuncShadowIff ==
    \A i \in 1..Len(funcs) :
        funcs[i].has_shadow <=> (\E id \in DOMAIN funcs[i].vars : Len(Locs(i, id)) > 1)

\* A scope with a shadowed identifier next to a scope with bindings and no shadow.
C2_Witness ==
    \E i, j \in 1..Len(funcs) :
        /\ funcs[i].has_shadow
        /\ ~funcs[j].has_shadow
        /\ DOMAIN funcs[j].vars # {}

\* C3: the flag of the file is true exactly when some scope's flag is.
C3_FileShadowIff ==
    has_shadow <=> (\E i \in 1..Len(funcs) : funcs[i].has_shadow)

\* During a traversal, a shadow has been found in one of two scopes.
C3_Witness ==
    /\ pc = "visit"
    /\ has_shadow
    /\ \E i, j \in 1..Len(funcs) : funcs[i].has_shadow /\ ~funcs[j].has_shadow

\* The occurrences of id in scope f, none if the identifier has no entry.
LocsOf(f, id) == IF id \in DOMAIN f.vars THEN f.vars[id].locs ELSE <<>>

\* C4: a traversal step leaves every scope but the newest as it was, and an
\* occurrence added to a scope is the original exactly when that scope held
\* no earlier occurrence of its identifier.
C4_NoCrossScopeInterference ==
    [][ (pc = "visit" /\ pc' = "visit") =>
          /\ Len(funcs') >= Len(funcs)
          /\ \A i \in 1..Len(funcs) : i < Len(funcs') => funcs'[i] = funcs[i]
          /\ Len(funcs') = Len(funcs) =>
                \A i \in 1..Len(funcs) : \A id \in DOMAIN funcs'[i].vars :
                    LET old == LocsOf(funcs[i], id)
                        new == LocsOf(funcs'[i], id)
                    IN  /\ Len(new) >= Len(old)
                        /\ SubSeq(new, 1, Len(old)) = old
                        /\ \A k \in (Len(old) + 1)..Len(new) :
                              new[k].is_original <=> (k = 1)
      ]_vars

\* Two functions that are not nested, each binding x twice: the second
\* function is open, the first has returned.
C4_Witness ==
    /\ pc = "visit"
    /\ Len(funcs) = 2
    /\ Len(stack) >= 1 /\ stack[1].scope = 2
    /\ \A i \in 1..2 :
          /\ IdentX \in DOMAIN funcs[i].vars
          /\ Len(Locs(i, IdentX)) = 2
          /\ Locs(i, IdentX)[1].is_original
          /\ funcs[i].has_shadow

\* The scope of the innermost function or method whose visit is pending: the
\* function whose body lexically contains the node visited next (0: none).
Enclosing(s) ==
    LET fi == { k \in 1..Len(s) : s[k].kind \in {"fn", "method"} }
    IN  IF fi = {} THEN 0
        ELSE s[CHOOSE k \in fi : \A j \in fi : j <= k].scope

\* C5: the scope that receives the bindings of a local declaration lying in
\* the body of a function or method is the scope of that function or method.
C5_LexicalAttribution ==
    [][ (pc = "visit" /\ pc' = "visit" /\ Len(funcs') = Len(funcs)
            /\ Enclosing(stack) # 0) =>
          \A i \in 1..Len(funcs) : funcs'[i] # funcs[i] => i = Enclosing(stack)
      ]_vars

Terminated == pc \in {"exit", "panic"}

Reported(msgs) == \E k \in 1..Len(stderr) : stderr[k].msg \in msgs

\* C6: a local declaration met with no open scope fails that file only; the
\* run ends with every entry of the batch consumed.
C6_LogicErrorKeepsBatch ==
    (Terminated /\ Reported({"Local without a function?"})) => idx = total

\* C7: a file that does not parse is never analysed and the run ends with
\* every entry of the batch consumed, in both modes.
C7_ParseErrorKeepsBatch ==
    /\ \A k \in 1..Len(stderr) :
          stderr[k].msg \in {"Unable to parse", "Unable to parse file"} =>
             \A a \in 1..Len(analysed) : analysed[a].file # stderr[k].file
    /\ (Terminated /\ Reported({"Unable to parse", "Unable to parse file"}))
          => idx = total

\* C8: a failed read or a failed directory step concerns that entry only; the
\* run ends with every entry of the batch consumed.
C8_IoErrorKeepsBatch ==
    (Terminated /\ Reported({"read_to_string: unwrap on Err",
                             "Unable to parse file name."})) => idx = total

\* C9: with --files every analysed file has its header printed; in a
\* directory walk an analysed file has its header printed exactly when its
\* has_shadow is true.  Nothing else is printed.
C9_PrintPolicy ==
    /\ \A a \in 1..Len(analysed) :
          /\ mode = "files" => InSeq(analysed[a].file, stdout)
          /\ mode = "dir" => (InSeq(analysed[a].file, stdout) <=> analysed[a].has_shadow)
    /\ \A k \in 1..Len(stdout) :
          \E a \in 1..Len(analysed) : analysed[a].file = stdout[k]

\* A directory walk that analysed a file with a shadow and one without, and
\* printed the first only.
C9_Witness ==
    /\ mode = "dir"
    /\ Len(analysed) = 2
    /\ analysed[1].has_shadow /\ ~analysed[2].has_shadow
    /\ stdout = <<analysed[1].file>>

\* The printed functions that stand for scope i (the line identifies it).
Rendered(i) ==
    { k \in 1..Len(report.body) :
        report.body[k].loc = funcs[i].loc /\ report.body[k].name = funcs[i].name }

RowsOf(k, id) ==
    { r \in 1..Len(report.body[k].rows) : report.body[k].rows[r].key = id }

VisitNode(st, node, line) ==
    IF node.kind = "local"
    THEN RecordAll(st, get_idents(node.pats), line)
    ELSE [funcs |-> Append(st.funcs, FunctionNew(node.name, line)),
          has_shadow |-> st.has_shadow]

\* The counter after the nodes n.. of t have been visited in order.
RECURSIVE Traverse(_, _, _)
Traverse(st, t, n) ==
    IF n > Len(t) THEN st ELSE Traverse(VisitNode(st, t[n], n), t, n + 1)

\* The analysis data of a tree, from an empty counter.
Analysis(t) == Traverse([funcs |-> <<>>, has_shadow |-> FALSE], t, 1)

\* C11: the analysis data is a function of the syntax tree: whenever a
\* traversal of a batch has returned, the scopes, their occurrences and the
\* flags are those that the nodes of its tree yield from an empty counter,
\* so two traversals of the same tree agree.
C11_DataDeterminedByTree ==
    pc # "visit" =>
        /\ funcs = Analysis(tree).funcs
        /\ has_shadow = Analysis(tree).has_shadow

\* The second traversal of a batch has finished on a tree with a shadow.
C11_Witness ==
    /\ pc = "loop"
    /\ Len(analysed) = 2
    /\ Len(tree) >= 3
    /\ has_shadow

\* C12: every traversal starts from a counter with no scope and no shadow,
\* named after its own file, and each of its steps changes the counter as a
\* function of the counter and of the node alone, whatever was analysed,
\* printed or reported before.
C12_FileIsolation ==
    [][ /\ (pc = "loop" /\ pc' = "visit") =>
              /\ funcs' = <<>>
              /\ has_shadow' = FALSE
              /\ tree' = <<>>
              /\ filename' = idx'
              /\ UNCHANGED <<analysed, stdout, stderr>>
        /\ (pc = "visit" /\ tree' # tree) =>
              /\ tree' = Append(tree, tree'[Len(tree')])
              /\ [funcs |-> funcs', has_shadow |-> has_shadow'] =
                    VisitNode([funcs |-> funcs, has_shadow |-> has_shadow],
                              tree'[Len(tree')], Len(tree'))
              /\ UNCHANGED <<filename, analysed, stdout, stderr>>
      ]_vars

\* A file is being analysed, with a scope and no shadow so far, after a file
\* with shadows.
C12_Witness ==
    /\ pc = "visit"
    /\ Len(analysed) = 1
    /\ analysed[1].has_shadow
    /\ Len(funcs) >= 1
    /\ ~has_shadow

\* The number of top-level identifier patterns of pats that bind id.
IdentCount(pats, id) ==
    Cardinality({ k \in 1..Len(pats) : pats[k].kind = "Ident" /\ pats[k].ident = id })

\* The identifiers bound by the top-level identifier patterns of pats.
BoundBy(pats) == { id \in Idents : IdentCount(pats, id) > 0 }

IsPrefix(f, g) == Len(f) <= Len(g) /\ SubSeq(g, 1, Len(f)) = f

\* C14: across every step of a traversal the scopes only grow: the old list
\* of scopes is a prefix of the new one up to the bindings, name and line of
\* a scope never change, and the old occurrences of every identifier are a
\* prefix of its new occurrences.
C14_AdditiveInOrder ==
    [][ pc = "visit" =>
          /\ Len(funcs') >= Len(funcs)
          /\ \A i \in 1..Len(funcs) :
                /\ funcs'[i].name = funcs[i].name
                /\ funcs'[i].loc = funcs[i].loc
                /\ DOMAIN funcs[i].vars \subseteq DOMAIN funcs'[i].vars
                /\ \A id \in DOMAIN funcs[i].vars :
                      IsPrefix(funcs[i].vars[id].locs, funcs'[i].vars[id].locs)
      ]_vars

\* A scope whose identifier has been bound twice, followed by a later scope
\* with a binding.
C14_Witness ==
    /\ pc = "visit"
    /\ Len(funcs) >= 2
    /\ \E id \in DOMAIN funcs[1].vars : Len(Locs(1, id)) >= 2
    /\ DOMAIN funcs[2].vars # {}

\* The last traversal begun has returned.
Completed == pc \in {"loop", "exit"} /\ filename # 0

\* The lines of the function and method items of the tree.
ItemLines == { n \in 1..Len(tree) : tree[n].kind \in {"fn", "method"} }

\* The occurrences of id recorded for line n, over all scopes.
OccAt(id, n) ==
    UNION { { <<i, k>> : k \in { q \in 1..Len(LocsOf(funcs[i], id)) :
                                   LocsOf(funcs[i], id)[q].loc = n } }
            : i \in 1..Len(funcs) }

\* C15: after a completed traversal there is exactly one scope per function
\* or method item of the tree, with its name and line, also for an item
\* without locals; every let has, for each identifier, as many occurrences
\* as top-level identifier patterns binding it, and no occurrence belongs to
\* anything but a let.
C15_ExactlyOnce ==
    Completed =>
        /\ Len(funcs) = Cardinality(ItemLines)
        /\ \A n \in ItemLines :
              Cardinality({ i \in 1..Len(funcs) :
                  funcs[i].loc = n /\ funcs[i].name = tree[n].name }) = 1
        /\ \A n \in 1..Len(tree) : \A id \in Idents :
              Cardinality(OccAt(id, n)) =
                 IF tree[n].kind = "local" THEN IdentCount(tree[n].pats, id) ELSE 0
        /\ \A i \in 1..Len(funcs) : \A id \in DOMAIN funcs[i].vars :
              /\ id \in Idents
              /\ \A k \in 1..Len(Locs(i, id)) : Locs(i, id)[k].loc \in 1..Len(tree)

\* A completed traversal of a tree with a function without locals and a
\* function in which an identifier is bound twice.
C15_Witness ==
    /\ Completed
    /\ \E i, j \in 1..Len(funcs) :
          /\ DOMAIN funcs[i].vars = {}
          /\ \E id \in DOMAIN funcs[j].vars : Len(Locs(j, id)) >= 2

\* No function or method item lies on the lines a+1..b.
NoItemBetween(a, b) == \A n \in (a + 1)..b : n \notin ItemLines

\* C16: while the visit of a function or method is pending its scope exists
\* and every occurrence in a scope lies after the line that opened it; while
\* the visit of a let is pending its identifiers are recorded already, and
\* every let of its initializer that binds the same identifier with no item
\* in between is recorded later in the same history, as a shadow.
C16_PreOrder ==
    /\ \A i \in 1..Len(funcs) : \A id \in DOMAIN funcs[i].vars :
          \A k \in 1..Len(Locs(i, id)) : Locs(i, id)[k].loc > funcs[i].loc
    /\ \A k \in 1..Len(stack) :
          LET fr == stack[k]
          IN  /\ fr.kind # "local" =>
                    /\ fr.scope \in 1..Len(funcs)
                    /\ funcs[fr.scope].loc = fr.line
              /\ fr.kind = "local" =>
                    \A id \in BoundBy(tree[fr.line].pats) :
                       \E i \in 1..Len(funcs) :
                          /\ id \in DOMAIN funcs[i].vars
                          /\ \E p \in 1..Len(Locs(i, id)) :
                                /\ Locs(i, id)[p].loc = fr.line
                                /\ \A m \in (fr.line + 1)..Len(tree) :
                                      (/\ tree[m].kind = "local"
                                       /\ id \in BoundBy(tree[m].pats)
                                       /\ NoItemBetween(fr.line, m)) =>
                                         \E q \in (p + 1)..Len(Locs(i, id)) :
                                            /\ Locs(i, id)[q].loc = m
                                            /\ ~Locs(i, id)[q].is_original

\* let x = { let x = ..; .. }: both visits are pending, the outer x is the
\* original and the inner x the shadow, in the scope of the function.
C16_Witness ==
    /\ pc = "visit"
    /\ Len(stack) = 3
    /\ stack[1].kind = "fn" /\ stack[2].kind = "local" /\ stack[3].kind = "local"
    /\ Len(funcs) = 1
    /\ IdentX \in DOMAIN funcs[1].vars
    /\ Locs(1, IdentX) = <<CaseNew(stack[2].line, TRUE), CaseNew(stack[3].line, FALSE)>>

\* The patterns with the by-reference marks taken off.
Plain(pats) == [k \in 1..Len(pats) |-> [pats[k] EXCEPT !.by_ref = FALSE]]

\* C17: the visit of a let adds to the last scope, for each identifier, one
\* occurrence per top-level identifier pattern binding it, by reference or
\* not; it changes the counter as the same let without `ref` would; a let
\* whose patterns are all compound changes no scope and no flag.
C17_FlatExtraction ==
    [][ (pc = "visit" /\ tree' # tree /\ tree'[Len(tree')].kind = "local") =>
          LET node == tree'[Len(tree')]
              last == Len(funcs)
          IN  /\ Len(funcs') = last
              /\ \A id \in Idents :
                    Len(LocsOf(funcs'[last], id)) =
                       Len(LocsOf(funcs[last], id)) + IdentCount(node.pats, id)
              /\ [funcs |-> funcs', has_shadow |-> has_shadow'] =
                    VisitNode([funcs |-> funcs, has_shadow |-> has_shadow],
                              LocalNode(Plain(node.pats)), Len(tree'))
              /\ BoundBy(node.pats) = {} =>
                    funcs' = funcs /\ has_shadow' = has_shadow
      ]_vars

\* After let x, a let with a tuple pattern and let ref x: the tuple left no
\* trace and ref x is the shadow of x.
C17_Witness ==
    /\ pc = "visit"
    /\ Len(tree) = 4
    /\ tree[3] = LocalNode(<<PatTuple>>)
    /\ tree[4] = LocalNode(<<PatIdent(IdentX, TRUE)>>)
    /\ Len(funcs) = 1
    /\ DOMAIN funcs[1].vars = {IdentX}
    /\ Locs(1, IdentX) = <<CaseNew(2, TRUE), CaseNew(4, FALSE)>>

====
